---- MODULE Spec2Model ----
(***************************************************************************)
(* The Hinata chat bot of src/hinachat.py: five update handlers (/start,   *)
(* /help, /truth, /dare and free text) running as cooperative tasks, the   *)
(* per-conversation history kept in context.chat_data['history'], the      *)
(* prompt query_gemini assembles from it, and the two outbound calls whose *)
(* failures are turned into fixed fallback strings.                        *)
(*                                                                         *)
(* Strings are TLA+ strings, so that rendering and joining are the real    *)
(* concatenations.  A task is suspended only where the code awaits:        *)
(* send_chat_action, asyncio.sleep and reply_text.  fetch_online and       *)
(* query_gemini use the blocking requests library and hold no await, so    *)
(* everything between the end of the sleep and reply_text is one step.     *)
(***************************************************************************)
EXTENDS Integers, Sequences, FiniteSets, TLC

(* ------------------------------ bounds --------------------------------- *)

\* Updates delivered to the bot in one behaviour.
MaxUpdates == 2

(* ------------------------ program constants ---------------------------- *)

\* history[-20:], line 73
HistoryCap == 20
\* history[-10:], line 54
PromptWindow == 10

SystemPrompt ==
  "You are Hinata Hyuga from Naruto Shippuden: shy, kind, and supportive. Respond like a caring friend."
TriviaDefault == "Hmm... I have no question right now."
TriviaFallback == "Sorry, I couldn't fetch a question at the moment."
GeminiFallback == "Sorry... I can't think of a good reply right now."
HelpText ==
  "I can play Truth or Dare or just chat with you!\n/start - Greet Hinata\n/truth - Ask me a truth question\n/dare - Give me a dare\n/help - Show this help message"

(* ------------------------- input alphabets ----------------------------- *)

Chats == {"A", "B"}
TaskIds == {1, 2}
Users == {"Rupa"}
Texts == {"hi"}
Questions == {"Have you ever lied?"}
Replies == {"I am here for you."}
Kinds == {"start", "help", "truth", "dare", "chat"}

\* What the GET of line 29-31 can do: a JSON object with a question, a JSON
\* object without one, or one of the exceptions of requests.get,
\* raise_for_status and resp.json.
TriviaOutcomes ==
  [kind : {"ok"}, text : Questions]
    \cup [kind : {"no_question", "ConnectionError", "HTTPError", "JSONDecodeError"},
          text : {""}]

\* What the POST of line 65-67 can do: a response holding the nested text, or
\* an exception of requests.post, raise_for_status, response.json or of the
\* subscripting of a response that lacks candidates[0].content.parts[0].text.
GeminiOutcomes ==
  [kind : {"ok"}, text : Replies]
    \cup [kind : {"ConnectionError", "HTTPError", "JSONDecodeError", "KeyError"},
          text : {""}]

\* The exception an outcome raises inside the try block, "none" if it returns.
RaisedBy(outcome) ==
  IF outcome.kind \in {"ok", "no_question"} THEN "none" ELSE outcome.kind

\* What a task records of an outcome: how the call ended, not which exception.
Ended(outcome) == IF RaisedBy(outcome) = "none" THEN outcome.kind ELSE "failed"

\* The classes deriving from Exception among those the calls raise.
ExceptionClasses == {"ConnectionError", "HTTPError", "JSONDecodeError", "KeyError"}

\* A handler that names only the transport error.
CaughtTransportOnly(exc) == exc = "ConnectionError"

\* `except Exception` (lines 32 and 68).
Caught(exc) == exc \in ExceptionClasses

(* ------------------------------ fetch_online --------------------------- *)

\* A call's result: the exception that left the function ("none" when it
\* returned) and the value returned.
Returned(v) == [raised |-> "none", value |-> v]
Propagated(exc) == [raised |-> exc, value |-> ""]

fetch_online(outcome) ==
  LET exc == RaisedBy(outcome) IN
    IF exc = "none"
      THEN Returned(IF outcome.kind = "ok" THEN outcome.text ELSE TriviaDefault)
      ELSE IF Caught(exc) THEN Returned(TriviaFallback) ELSE Propagated(exc)

(* ------------------------------ query_gemini --------------------------- *)

Message(role, content) == [role |-> role, content |-> content]
SystemMessage == Message("system", SystemPrompt)

\* s[:n]
FirstN(s, n) == IF Len(s) <= n THEN s ELSE SubSeq(s, 1, n)

\* s[-n:]
LastN(s, n) == IF Len(s) <= n THEN s ELSE SubSeq(s, Len(s) - n + 1, Len(s))

\* Lines 47-51 with the insertion left out.
NeverPrimed(history) == history

\* Lines 47-51 without the emptiness test.
AlwaysPrimed(history) == <<SystemMessage>> \o history

\* Lines 47-51: the lazily inserted system entry.
WithSystem(history) == IF history = <<>> THEN <<SystemMessage>> ELSE history

\* Line 54, the other way round.
OldestWindow(history) == FirstN(history, PromptWindow)

\* Line 54.
Recent(history) == LastN(history, PromptWindow)

\* Line 73, keeping the oldest entries.
TrimOldest(history) == FirstN(history, HistoryCap)

\* Line 73, off by one.
TrimOneMore(history) == LastN(history, HistoryCap + 1)

\* Line 73.
Trim(history) == LastN(history, HistoryCap)

\* f"{m['role']}: {m['content']}"
Render(m) == m.role \o ": " \o m.content

\* "\n".join(lines)
RECURSIVE Join(_)
Join(lines) ==
  IF lines = <<>> THEN ""
  ELSE IF Len(lines) = 1 THEN lines[1]
  ELSE lines[1] \o "\n" \o Join(Tail(lines))

\* Line 56 without the final line.
PromptWithoutInput(recent, user_input) ==
  Join([i \in 1..Len(recent) |-> Render(recent[i])])

\* Lines 55-56.
BuildPrompt(recent, user_input) ==
  Join([i \in 1..Len(recent) |-> Render(recent[i])]) \o "\nuser: " \o user_input

\* Lines 64-70.
generate_reply(outcome) ==
  LET exc == RaisedBy(outcome) IN
    IF exc = "none" THEN Returned(outcome.text)
    ELSE IF Caught(exc) THEN Returned(GeminiFallback) ELSE Propagated(exc)

\* Lines 69-72 with the failed turn rolled back.
ForgetFailedTurn(history, user_input, r) ==
  IF r.value = GeminiFallback
    THEN SubSeq(history, 1, Len(history) - 1)
    ELSE Append(history, Message("assistant", r.value))

\* Line 72.
WithReply(history, user_input, r) == Append(history, Message("assistant", r.value))

\* The whole of query_gemini on the stored history (<<>> when chat_data has
\* no 'history' key).  `stored` is chat_data['history'] when the call ends:
\* the trimmed copy of line 73 when it returns; when an exception leaves the
\* function line 73 is not reached, and the stored list, if there was one,
\* has been appended to in place by line 53 (a fresh [] of line 46 is lost).
query_gemini(history, user_input, outcome) ==
  LET asked == Append(WithSystem(history), Message("user", user_input))
      prompt == BuildPrompt(Recent(asked), user_input)
      r == generate_reply(outcome)
  IN  IF r.raised = "none"
        THEN [raised |-> "none", prompt |-> prompt, reply |-> r.value,
              stored |-> Trim(WithReply(asked, user_input, r))]
        ELSE [raised |-> r.raised, prompt |-> prompt, reply |-> "",
              stored |-> IF history = <<>> THEN <<>> ELSE asked]

(* ------------------------------ handlers ------------------------------- *)

\* Line 80 (the trailing emoji left out).
Greeting(user) ==
  "Oh, hello " \o user \o "-san. I'm Hinata Hyuga. How can I help you today?"

\* Line 107 without the wrapping.
RawQuestion(question) == question

\* Line 107.
TruthInput(question) == "Truth question: " \o question
\* Line 113.
DareInput(task) == "Dare: " \o task

VARIABLES
  chat_data,   \* context.chat_data['history'] of each chat, <<>> when unset
  pc,          \* where each handler task stands
  update,      \* the update each task handles
  events,      \* what each task has done so far, in order
  call,        \* the query_gemini call each task made
  dispatched,  \* updates delivered so far
  turns        \* per chat, the completed query_gemini calls in order

vars == <<chat_data, pc, update, events, call, dispatched, turns>>

NoUpdate == [chat |-> "none", kind |-> "none", text |-> "", user |-> ""]
NoCall ==
  [made |-> FALSE, before |-> <<>>, input |-> "", trivia |-> "none",
   gen |-> "none", prompt |-> "", reply |-> ""]

\* A history kept for the whole process instead of per chat.
SharedChat(t) == CHOOSE c \in Chats : TRUE

\* context.chat_data is the dictionary of the chat the update came from.
ChatOf(t) == update[t].chat

\* A conversation that already took place: turn i is a free-text message, a
\* /truth whose generation call failed, or a /dare whose trivia call failed.
PriorInput(i) ==
  IF i % 3 = 1 THEN CHOOSE x \in Texts : TRUE
  ELSE IF i % 3 = 2 THEN TruthInput(CHOOSE q \in Questions : TRUE)
  ELSE DareInput(TriviaFallback)

PriorOutcome(i) ==
  IF i % 3 = 2 THEN [kind |-> "HTTPError", text |-> ""]
  ELSE [kind |-> "ok", text |-> CHOOSE r \in Replies : TRUE]

RECURSIVE Replay(_)
Replay(n) ==
  IF n = 0 THEN <<>>
  ELSE query_gemini(Replay(n - 1), PriorInput(n), PriorOutcome(n)).stored

PriorTurnsOf(n) ==
  [i \in 1..n |->
     [input |-> PriorInput(i),
      reply |-> generate_reply(PriorOutcome(i)).value]]

\* The longest conversation whose history still holds every entry.
FullTurns == (HistoryCap - 1) \div 2
PriorTurns == {0, FullTurns}

\* The process has been running: every chat is either new (no 'history' key
\* yet) or has had FullTurns turns, its history being what query_gemini
\* stored for them; no handler is running.
Init ==
  /\ \E prior \in PriorTurns :
       /\ chat_data = [c \in Chats |-> Replay(prior)]
       /\ turns = [c \in Chats |-> PriorTurnsOf(prior)]
  /\ pc = [t \in TaskIds |-> "idle"]
  /\ update = [t \in TaskIds |-> NoUpdate]
  /\ events = [t \in TaskIds |-> <<>>]
  /\ call = [t \in TaskIds |-> NoCall]
  /\ dispatched = 0

\* A task slot that holds no running handler.
Free(t) == pc[t] \in {"idle", "done", "failed"}

\* The application creates a task for an update (in the lowest free slot: the
\* slots are interchangeable); the handler runs up to its first await,
\* send_chat_action (line 37).
Dispatch(t, c, k, u, x) ==
  /\ dispatched < MaxUpdates
  /\ Free(t)
  /\ \A s \in TaskIds : Free(s) => t <= s
  /\ dispatched' = dispatched + 1
  /\ pc' = [pc EXCEPT ![t] = "typing"]
  /\ update' = [update EXCEPT ![t] =
                  [chat |-> c, kind |-> k, user |-> u,
                   text |-> IF k = "chat" THEN x ELSE "/" \o k]]
  /\ events' = [events EXCEPT ![t] = <<>>]
  /\ call' = [call EXCEPT ![t] = NoCall]
  /\ UNCHANGED <<chat_data, turns>>

\* human_typing: the chat action is sent, the task sleeps (line 38).
human_typing(t) ==
  /\ pc[t] = "typing"
  /\ pc' = [pc EXCEPT ![t] = "sleeping"]
  /\ events' = [events EXCEPT ![t] = Append(@, <<"typing">>)]
  /\ UNCHANGED <<chat_data, update, call, dispatched, turns>>

\* start, lines 79-91: from the end of the sleep to the await of reply_text,
\* the reply handed to the messaging client.
start(t) ==
  /\ pc[t] = "sleeping"
  /\ update[t].kind = "start"
  /\ pc' = [pc EXCEPT ![t] = "sending"]
  /\ call' = [call EXCEPT ![t].reply = Greeting(update[t].user)]
  /\ events' = [events EXCEPT ![t] = Append(@, <<"reply", Greeting(update[t].user)>>)]
  /\ UNCHANGED <<chat_data, update, dispatched, turns>>

\* help_command, lines 95-102.
help_command(t) ==
  /\ pc[t] = "sleeping"
  /\ update[t].kind = "help"
  /\ pc' = [pc EXCEPT ![t] = "sending"]
  /\ call' = [call EXCEPT ![t].reply = HelpText]
  /\ events' = [events EXCEPT ![t] = Append(@, <<"reply", HelpText>>)]
  /\ UNCHANGED <<chat_data, update, dispatched, turns>>

\* `reply = await query_gemini(user_input, context)` and, when it returns,
\* the reply_text call that follows, up to its await; evs are the events that
\* preceded the call.
Pipeline(t, user_input, trivia, outcome, evs) ==
  LET c == ChatOf(t) IN
    \E r \in {query_gemini(chat_data[c], user_input, outcome)} :
      /\ chat_data' = [chat_data EXCEPT ![c] = r.stored]
      /\ events' = [events EXCEPT ![t] =
                      evs \o << <<"generate", user_input>> >>
                          \o IF r.raised = "none"
                               THEN << <<"reply", r.reply>> >> ELSE <<>>]
      /\ call' = [call EXCEPT ![t] =
                    [made |-> TRUE, before |-> chat_data[c], input |-> user_input,
                     trivia |-> trivia, gen |-> Ended(outcome),
                     prompt |-> r.prompt, reply |-> r.reply]]
      /\ pc' = [pc EXCEPT ![t] = IF r.raised = "none" THEN "sending" ELSE "failed"]
      /\ turns' = IF r.raised = "none"
                    THEN [turns EXCEPT ![c] =
                            Append(@, [input |-> user_input, reply |-> r.reply])]
                    ELSE turns
      /\ UNCHANGED <<update, dispatched>>

\* An exception leaves fetch_online: the handler ends there.
FetchFailed(t, trivia, evs) ==
  /\ pc' = [pc EXCEPT ![t] = "failed"]
  /\ events' = [events EXCEPT ![t] = evs]
  /\ call' = [call EXCEPT ![t].trivia = trivia]
  /\ UNCHANGED <<chat_data, update, dispatched, turns>>

\* truth, lines 106-108.
truth(t) ==
  /\ pc[t] = "sleeping"
  /\ update[t].kind = "truth"
  /\ \E fetched \in TriviaOutcomes, outcome \in GeminiOutcomes :
     \E question \in {fetch_online(fetched)} :
       LET evs == Append(events[t], <<"fetch", "truth">>)
       IN  IF question.raised = "none"
             THEN Pipeline(t, TruthInput(question.value), Ended(fetched), outcome, evs)
             ELSE FetchFailed(t, Ended(fetched), evs)

\* dare, lines 112-114.
dare(t) ==
  /\ pc[t] = "sleeping"
  /\ update[t].kind = "dare"
  /\ \E fetched \in TriviaOutcomes, outcome \in GeminiOutcomes :
     \E task \in {fetch_online(fetched)} :
       LET evs == Append(events[t], <<"fetch", "dare">>)
       IN  IF task.raised = "none"
             THEN Pipeline(t, DareInput(task.value), Ended(fetched), outcome, evs)
             ELSE FetchFailed(t, Ended(fetched), evs)

\* chat, lines 118-120.
chat(t) ==
  /\ pc[t] = "sleeping"
  /\ update[t].kind = "chat"
  /\ \E outcome \in GeminiOutcomes :
       Pipeline(t, update[t].text, "none", outcome, events[t])

\* reply_text completes and the handler returns (lines 91, 102, 108, 114,
\* 120): the task is over and what it held is gone.
reply_text(t) ==
  /\ pc[t] = "sending"
  /\ pc' = [pc EXCEPT ![t] = "done"]
  /\ update' = [update EXCEPT ![t] = NoUpdate]
  /\ events' = [events EXCEPT ![t] = <<>>]
  /\ call' = [call EXCEPT ![t] = NoCall]
  /\ UNCHANGED <<chat_data, dispatched, turns>>

Next ==
  \E t \in TaskIds :
    \/ \E c \in Chats, k \in Kinds, u \in Users, x \in Texts : Dispatch(t, c, k, u, x)
    \/ human_typing(t)
    \/ start(t)
    \/ help_command(t)
    \/ truth(t)
    \/ dare(t)
    \/ chat(t)
    \/ reply_text(t)

Spec == Init /\ [][Next]_vars

(* ------------------------------- claims -------------------------------- *)

Min(a, b) == IF a <= b THEN a ELSE b

\* The tasks whose query_gemini call has returned.
Called(t) == call[t].made /\ pc[t] = "sending"

\* A step in which task t makes its query_gemini call.
Calls(t) == ~call[t].made /\ call'[t].made

\* The entries a turn appends to the history it read, in order.
Appended(before, user_input, reply) ==
  (IF before = <<>> THEN <<SystemMessage>> ELSE <<>>)
    \o <<Message("user", user_input), Message("assistant", reply)>>

\* C1: the history stored for every conversation holds at most 20 entries,
\* whatever the turns were and however their generation calls ended.
C1_HistoryAtMostCap == \A c \in Chats : Len(chat_data[c]) <= HistoryCap

\* A conversation of more turns than the cap holds, trimmed to the cap.
C1_Witness ==
  \E c \in Chats :
    /\ 2 * Len(turns[c]) + 1 > HistoryCap + 1
    /\ Len(chat_data[c]) = HistoryCap
    /\ \E t \in TaskIds : Called(t) /\ update[t].chat = c

\* C2 as stated: a non-empty history always starts with the system entry.
C2_FirstIsSystem ==
  \A c \in Chats : chat_data[c] # <<>> => chat_data[c][1] = SystemMessage

\* C2 amended: a non-empty history starts with the system entry, its only
\* system entry, while the conversation has had at most 9 turns; from the
\* tenth turn on the trim has dropped it, the history holds exactly 20
\* entries, none of them a system entry, and starts with a user entry.
C2_SystemFirstUntilEvicted ==
  \A c \in Chats :
    LET h == chat_data[c] IN
      h # <<>> =>
        /\ \A i \in 2..Len(h) : h[i].role # "system"
        /\ IF Len(turns[c]) <= FullTurns
             THEN h[1] = SystemMessage /\ Len(h) = 2 * Len(turns[c]) + 1
             ELSE h[1].role = "user" /\ Len(h) = HistoryCap

\* The tenth turn of a conversation has just evicted the system entry.
C2_Witness ==
  \E t \in TaskIds :
    /\ Called(t)
    /\ call[t].before # <<>>
    /\ call[t].before[1] = SystemMessage
    /\ chat_data[update[t].chat][1].role = "user"

\* The spec's append_and_trim: one entry appended, then the most recent 20.
AppendAndTrim(history, m) ==
  LET h == Append(history, m) IN
    IF Len(h) > 20 THEN [i \in 1..20 |-> h[Len(h) - 20 + i]] ELSE h

RECURSIVE AppendAllAndTrim(_, _)
AppendAllAndTrim(history, entries) ==
  IF entries = <<>> THEN history
  ELSE AppendAllAndTrim(AppendAndTrim(history, Head(entries)), Tail(entries))

\* C3: the history a turn stores is append_and_trim applied once per entry
\* the turn appends, which is the last min(20, n) entries, in order, of the
\* previous history followed by those entries.
C3_StoredIsAppendAndTrim ==
  [][\A t \in TaskIds :
       Calls(t) /\ pc'[t] = "sending" =>
         LET c == update[t].chat
             new == Appended(chat_data[c], call'[t].input, call'[t].reply)
             all == chat_data[c] \o new
             n == Len(all)
             k == Min(20, n)
         IN  /\ chat_data'[c] = AppendAllAndTrim(chat_data[c], new)
             /\ chat_data'[c] = [i \in 1..k |-> all[n - k + i]]]_vars

\* A turn on a full history: the two oldest entries go, the order stays.
C3_Witness ==
  \E t \in TaskIds :
    /\ Called(t)
    /\ Len(call[t].before) = HistoryCap
    /\ chat_data[update[t].chat] =
         SubSeq(call[t].before, 3, HistoryCap)
           \o Appended(call[t].before, call[t].input, call[t].reply)

\* The rendered entries i.. of h, each followed by a newline.
RECURSIVE WindowText(_, _)
WindowText(h, i) ==
  IF i > Len(h) THEN ""
  ELSE h[i].role \o ": " \o h[i].content \o "\n" \o WindowText(h, i + 1)

EndsWith(s, suffix) ==
  /\ Len(s) >= Len(suffix)
  /\ SubSeq(s, Len(s) - Len(suffix) + 1, Len(s)) = suffix

\* The history as it is when the prompt is built: primed, user entry appended.
AsAsked(before, user_input) ==
  (IF before = <<>> THEN <<SystemMessage>> ELSE before)
    \o <<Message("user", user_input)>>

\* C4: the prompt is the trailing min(10, len) entries of the history with
\* the user entry appended, rendered "role: content" one per line in history
\* order, then the line "user: {user_input}"; it ends with that line.
C4_PromptIsRecentWindowThenInput ==
  \A t \in TaskIds :
    call[t].made =>
      LET h == AsAsked(call[t].before, call[t].input)
          k == Min(10, Len(h))
      IN  /\ call[t].prompt =
               WindowText(h, Len(h) - k + 1) \o "user: " \o call[t].input
          /\ EndsWith(call[t].prompt, "\nuser: " \o call[t].input)

\* A prompt built on a history longer than the window.
C4_Witness ==
  \E t \in TaskIds :
    /\ Called(t)
    /\ Len(call[t].before) = HistoryCap
    /\ update[t].kind = "dare"

\* C5 as stated: on an empty history the prompt is the single line "user: x".
C5_FirstPromptIsOneLine ==
  \A t \in TaskIds :
    call[t].made /\ call[t].before = <<>> =>
      call[t].prompt = "user: " \o call[t].input

\* C5 amended: on an empty history the prompt is three lines: the system
\* entry rendered "system: ...", the user entry "user: x" and the final line
\* "user: x".
C5_FirstPromptIsThreeLines ==
  \A t \in TaskIds :
    call[t].made /\ call[t].before = <<>> =>
      call[t].prompt =
        "system: " \o SystemPrompt
          \o "\nuser: " \o call[t].input \o "\nuser: " \o call[t].input

\* The first message of a conversation is "hi".
C5_Witness ==
  \E t \in TaskIds :
    /\ Called(t)
    /\ call[t].before = <<>>
    /\ update[t].kind = "chat"
    /\ call[t].input = "hi"
    /\ call[t].prompt =
         "system: You are Hinata Hyuga from Naruto Shippuden: shy, kind, and supportive. Respond like a caring friend.\nuser: hi\nuser: hi"

\* The reply events among a task's events.
Replies_of(t) == {i \in 1..Len(events[t]) : events[t][i][1] = "reply"}

\* C6: no failure of the trivia call or of the generation call leaves its
\* fetcher: a failed trivia call gives the trivia fallback string, a failed
\* generation call gives the generation fallback string, no handler ends
\* with an exception, and the handler goes on to send exactly one reply.
C6_FailuresBecomeFallbacks ==
  \A t \in TaskIds :
    /\ pc[t] # "failed"
    /\ call[t].trivia = "failed" =>
         /\ call[t].made
         /\ call[t].input \in {TruthInput(TriviaFallback), DareInput(TriviaFallback)}
    /\ call[t].gen = "failed" => call[t].reply = GeminiFallback
    /\ call[t].made =>
         /\ pc[t] = "sending"
         /\ Cardinality(Replies_of(t)) = 1
         /\ events[t][Len(events[t])] = <<"reply", call[t].reply>>
         /\ ENABLED reply_text(t)

\* A /truth whose two outbound calls both failed, about to reply.
C6_Witness ==
  \E t \in TaskIds :
    /\ Called(t)
    /\ update[t].kind = "truth"
    /\ call[t].trivia = "failed"
    /\ call[t].gen = "failed"
    /\ events[t][Len(events[t])] = <<"reply", GeminiFallback>>

\* What a trivia call that ended this way can have returned.
FetchedTexts(ended) ==
  IF ended = "ok" THEN Questions
  ELSE IF ended = "no_question" THEN {TriviaDefault}
  ELSE {TriviaFallback}

\* The events of a /truth or /dare handler that has got as far as `stage`.
CommandEvents(category, user_input, reply, stage) ==
  IF stage = "typing" THEN <<>>
  ELSE IF stage = "sleeping" THEN << <<"typing">> >>
  ELSE << <<"typing">>, <<"fetch", category>>, <<"generate", user_input>>,
          <<"reply", reply>> >>

\* C7: a /truth (/dare) handler does, in this order and once each: the typing
\* delay, one trivia fetch for "truth" ("dare"), one run of the pipeline on
\* "Truth question: " ("Dare: ") followed by what the fetch returned, one
\* reply carrying the pipeline's result; the prompt holds the wrapped text.
C7_CommandOrder ==
  \A t \in TaskIds :
    update[t].kind \in {"truth", "dare"} =>
      /\ events[t] =
           CommandEvents(update[t].kind, call[t].input, call[t].reply, pc[t])
      /\ pc[t] = "sending" =>
           /\ call[t].made
           /\ \E q \in FetchedTexts(call[t].trivia) :
                call[t].input =
                  (IF update[t].kind = "truth" THEN "Truth question: " ELSE "Dare: ")
                    \o q
           /\ EndsWith(call[t].prompt, "\nuser: " \o call[t].input)

\* The /truth of the spec's scenario, its reply handed over.
C7_Witness ==
  \E t \in TaskIds :
    /\ update[t].kind = "truth"
    /\ pc[t] = "sending"
    /\ call[t].trivia = "ok"
    /\ call[t].input = "Truth question: Have you ever lied?"
    /\ Len(events[t]) = 4

\* C8: only a /truth, /dare or free-text handler of a conversation changes
\* that conversation's history, and only by its query_gemini call; /start and
\* /help make no trivia or generation call and change no history.
C8_HistoryFrame ==
  /\ [](\A t \in TaskIds :
          update[t].kind \in {"start", "help"} =>
            /\ ~call[t].made
            /\ \A i \in 1..Len(events[t]) : events[t][i][1] \in {"typing", "reply"})
  /\ [][\A c \in Chats :
          chat_data'[c] # chat_data[c] =>
            \E t \in TaskIds :
              /\ Calls(t)
              /\ update[t].chat = c
              /\ update[t].kind \in {"truth", "dare", "chat"}]_vars
  /\ [][\A t \in TaskIds :
          pc[t] = "sleeping" /\ update[t].kind \in {"start", "help"} /\ pc'[t] # pc[t]
            => chat_data' = chat_data]_vars

\* A /start has replied in one chat while a turn of another chat has left
\* the first chat's history as it was.
C8_Witness ==
  \E t1, t2 \in TaskIds :
    /\ update[t1].kind = "start"
    /\ pc[t1] = "sending"
    /\ Called(t2)
    /\ update[t2].chat # update[t1].chat
    /\ chat_data[update[t1].chat] = <<>>
    /\ chat_data[update[t2].chat] # <<>>

\* Where the i-th rendered entry of a window starts in the prompt.
RECURSIVE Offset(_, _)
Offset(window, i) ==
  IF i = 1 THEN 0
  ELSE Offset(window, i - 1)
         + Len(window[i - 1].role) + 2 + Len(window[i - 1].content) + 1

FallbackEntry == Message("assistant", GeminiFallback)

\* C9: a failed generation call still changes the history: the turn appends
\* the user entry and an assistant entry holding the fallback string and
\* stores the trimmed result; later prompts render that entry as the line
\* "assistant: " followed by the fallback string.
C9_FailedTurnIsRecorded ==
  /\ [][\A t \in TaskIds :
          Calls(t) /\ call'[t].gen = "failed" =>
            LET c == update[t].chat
                all == AsAsked(chat_data[c], call'[t].input) \o <<FallbackEntry>>
            IN  /\ call'[t].reply = GeminiFallback
                /\ chat_data'[c] # chat_data[c]
                /\ chat_data'[c] =
                     IF Len(all) > 20 THEN SubSeq(all, Len(all) - 19, Len(all)) ELSE all]_vars
  /\ [](\A t \in TaskIds :
          call[t].made =>
            LET h == AsAsked(call[t].before, call[t].input)
                k == Min(10, Len(h))
                window == [i \in 1..k |-> h[Len(h) - k + i]]
            IN  \A i \in 1..k :
                  window[i] = FallbackEntry =>
                    SubSeq(call[t].prompt, Offset(window, i) + 1,
                           Offset(window, i) + 11 + Len(GeminiFallback) + 1)
                      = "assistant: " \o GeminiFallback \o "\n")

\* A turn whose generation call failed, right after another such turn.
C9_Witness ==
  \E t \in TaskIds :
    /\ Called(t)
    /\ call[t].gen = "failed"
    /\ call[t].before # <<>>
    /\ call[t].before[Len(call[t].before)] = FallbackEntry
    /\ Len(chat_data[update[t].chat]) >= 2
    /\ chat_data[update[t].chat][Len(chat_data[update[t].chat])] = FallbackEntry

\* The user and assistant entries of a sequence of turns.
RECURSIVE Flatten(_)
Flatten(ts) ==
  IF ts = <<>> THEN <<>>
  ELSE Flatten(SubSeq(ts, 1, Len(ts) - 1))
         \o <<Message("user", ts[Len(ts)].input),
              Message("assistant", ts[Len(ts)].reply)>>

\* C10: under every interleaving of handlers, a stored history is an optional
\* single leading system entry, then user and assistant entries strictly
\* alternating and ending with an assistant entry, each assistant entry the
\* reply to the user entry before it: it is the tail of the system entry
\* followed by every completed turn's pair, in the order the calls were made.
C10_WholeTurnsInOrder ==
  \A c \in Chats :
    LET h == chat_data[c]
        all == <<SystemMessage>> \o Flatten(turns[c])
        first == IF h # <<>> /\ h[1].role = "system" THEN 2 ELSE 1
    IN  /\ turns[c] = <<>> => h = <<>>
        /\ turns[c] # <<>> =>
             h = SubSeq(all, Len(all) - Min(20, Len(all)) + 1, Len(all))
        /\ \A i \in first..Len(h) :
             h[i].role = IF (i - first) % 2 = 0 THEN "user" ELSE "assistant"
        /\ h # <<>> => h[Len(h)].role = "assistant"

\* Two handlers of one conversation, interleaved: both slept before either
\* called query_gemini, and both turns are in the history, whole.
C10_Witness ==
  \E t1, t2 \in TaskIds :
    /\ t1 # t2
    /\ Called(t1) /\ Called(t2)
    /\ update[t1].chat = update[t2].chat
    /\ call[t1].input # call[t2].input
    /\ LET h == chat_data[update[t1].chat] IN
         /\ Len(h) = 5
         /\ h[2] = Message("user", call[t1].input)
         /\ h[4] = Message("user", call[t2].input)

====
